---- MODULE Spec2Model ----
(***************************************************************************)
(* Model of extract_qsm_per_region.py: one invocation loads the volumes,   *)
(* computes one scalar per region into the ordered mapping qsm_by_region,  *)
(* and appends one row to the cumulative CSV, writing the header first     *)
(* when os.path.isfile said the file was absent.  Several invocations      *)
(* (separate processes) share only the output file.                        *)
(*                                                                         *)
(* Arrays are records [shape, data] with data a function over the index    *)
(* tuples of the shape (0-based, as in numpy).  A 1-D array of gathered    *)
(* values is a function from the indices it was gathered at to the values: *)
(* the reducers used (len, median) do not depend on the order.  Voxel      *)
(* values are even integers or NaN, so that the mean of the two middle     *)
(* elements taken by the median is exact.                                  *)
(***************************************************************************)
EXTENDS Integers, Sequences, FiniteSets, TLC

\* Number of invocations (processes) considered.
NumInv == 2

\* Number of axial slices of the volumes the erosion is explored on.
GridZ == 2

Inv == 1..NumInv

\* np.nan: a value outside the voxel values, propagated by hand below.
NaN == -999

left_white_matter == 2

right_white_matter == 41

(***************************************************************************)
(* numpy arrays                                                            *)
(***************************************************************************)
Coords(shape) ==
  IF Len(shape) = 2
  THEN {<<x, y>> : x \in 0..(shape[1] - 1), y \in 0..(shape[2] - 1)}
  ELSE IF Len(shape) = 3
  THEN {<<x, y, z>> : x \in 0..(shape[1] - 1), y \in 0..(shape[2] - 1),
                      z \in 0..(shape[3] - 1)}
  ELSE {<<x, y, z, t>> : x \in 0..(shape[1] - 1), y \in 0..(shape[2] - 1),
                         z \in 0..(shape[3] - 1), t \in 0..(shape[4] - 1)}

\* arr == v, elementwise (NaN equals nothing).
ArrEq(arr, v) ==
  [shape |-> arr.shape,
   data |-> [c \in DOMAIN arr.data |-> arr.data[c] # NaN /\ arr.data[c] = v]]

\* arr > v, elementwise (NaN compares false).
ArrGt(arr, v) ==
  [shape |-> arr.shape,
   data |-> [c \in DOMAIN arr.data |-> arr.data[c] # NaN /\ arr.data[c] > v]]

\* np.logical_or / np.logical_and of two boolean arrays of one shape.
logical_or(a, b) ==
  [shape |-> a.shape, data |-> [c \in DOMAIN a.data |-> a.data[c] \/ b.data[c]]]

logical_and(a, b) ==
  [shape |-> a.shape, data |-> [c \in DOMAIN a.data |-> a.data[c] /\ b.data[c]]]

\* The first n entries of an index tuple.
Prefix(c, n) == [k \in 1..n |-> c[k]]

\* arr[mask] is defined (numpy raises IndexError otherwise): a boolean index
\* consumes the leading axes of arr and must match each of them exactly.
IndexOK(arr, mask) ==
  /\ Len(mask.shape) <= Len(arr.shape)
  /\ \A k \in 1..Len(mask.shape) : mask.shape[k] = arr.shape[k]

\* arr[mask]: the values of arr where the mask is true.
BoolIndex(arr, mask) ==
  LET sel == {c \in DOMAIN arr.data : mask.data[Prefix(c, Len(mask.shape))]}
  IN  [c \in sel |-> arr.data[c]]

\* The index tuples (of the mask) a boolean mask selects.
TrueSet(mask) == {c \in DOMAIN mask.data : mask.data[c]}

\* values[~np.isnan(values)]
NotNaN(values) == [c \in {d \in DOMAIN values : values[d] # NaN} |-> values[c]]

\* values[values > 0]
Positive(values) == [c \in {d \in DOMAIN values : values[d] > 0} |-> values[c]]

\* len(values)
Size(values) == Cardinality(DOMAIN values)

\* The k-th smallest (1-based) of a non-empty array without NaN.
KthSmallest(values, k) ==
  CHOOSE v \in {values[c] : c \in DOMAIN values} :
    /\ Cardinality({c \in DOMAIN values : values[c] < v}) < k
    /\ Cardinality({c \in DOMAIN values : values[c] <= v}) >= k

\* np.median of a non-empty array without NaN: the middle element, or the
\* mean of the two middle elements.
median(values) ==
  LET n == Size(values)
  IN  IF n % 2 = 1
      THEN KthSmallest(values, (n + 1) \div 2)
      ELSE (KthSmallest(values, n \div 2) + KthSmallest(values, n \div 2 + 1)) \div 2

\* a - b on floats: NaN when either operand is NaN.
FloatSub(a, b) == IF a = NaN \/ b = NaN THEN NaN ELSE a - b

(***************************************************************************)
(* scipy.ndimage.binary_erosion with its defaults: the structuring element *)
(* of connectivity 1 (in 2-D the cross), one iteration, border_value 0.    *)
(***************************************************************************)
\* A variant of Structure2D: the full 3 x 3 square (connectivity 2).
StructureSquare2D == {<<dx, dy>> : dx \in {-1, 0, 1}, dy \in {-1, 0, 1}}

\* generate_binary_structure(2, 1) as offsets from the centre.
Structure2D == {<<0, 0>>, <<-1, 0>>, <<1, 0>>, <<0, -1>>, <<0, 1>>}

binary_erosion(input) ==
  [shape |-> input.shape,
   data |-> [p \in DOMAIN input.data |->
               \A o \in Structure2D :
                 LET q == <<p[1] + o[1], p[2] + o[2]>>
                 IN  IF q \in DOMAIN input.data THEN input.data[q] ELSE FALSE]]

\* mask[:, :, z]
Slice(mask, z) ==
  [shape |-> <<mask.shape[1], mask.shape[2]>>,
   data |-> [p \in Coords(<<mask.shape[1], mask.shape[2]>>) |->
               mask.data[<<p[1], p[2], z>>]]]

\* eroded_mask: zeros_like(mask), each axial slice set to its own erosion.
ErodeSlices(mask) ==
  LET er == [z \in 0..(mask.shape[3] - 1) |-> binary_erosion(Slice(mask, z))]
  IN  [shape |-> mask.shape,
       data |-> [c \in DOMAIN mask.data |-> er[c[3]].data[<<c[1], c[2]>>]]]

(***************************************************************************)
(* qsm_by_region: a dict, kept as the sequence of its (key, value) items   *)
(* in insertion order.                                                     *)
(***************************************************************************)
Keys(d) == [k \in 1..Len(d) |-> d[k][1]]

Values(d) == [k \in 1..Len(d) |-> d[k][2]]

HasKey(d, key) == \E k \in 1..Len(d) : d[k][1] = key

Get(d, key) == d[CHOOSE k \in 1..Len(d) : d[k][1] = key][2]

\* d[key] = value: a new key goes last, an old key keeps its place.
DictSet(d, key, value) ==
  IF HasKey(d, key)
  THEN [k \in 1..Len(d) |-> IF d[k][1] = key THEN <<key, value>> ELSE d[k]]
  ELSE Append(d, <<key, value>>)

regions_dic ==
  << <<10, "Left-Thalamus-Proper">>, <<11, "Left-Caudate">>,
     <<12, "Left-Putamen">>, <<13, "Left-Pallidum">>,
     <<17, "Left-Hippocampus">>, <<18, "Left-Amygdala">>,
     <<26, "Left-Accumbens-area">>, <<49, "Right-Thalamus-Proper">>,
     <<50, "Right-Caudate">>, <<51, "Right-Putamen">>,
     <<52, "Right-Pallidum">>, <<53, "Right-Hippocampus">>,
     <<54, "Right-Amygdala">>, <<58, "Right-Accumbens-area">> >>

\* A variant of RegionStat that yields 0 for an empty selection.
RegionStatZero(values) == IF Size(values) > 0 THEN median(values) ELSE 0

\* np.median(values) if len(values) > 0 else np.nan
RegionStat(values) == IF Size(values) > 0 THEN median(values) ELSE NaN

(***************************************************************************)
(* The regions of one invocation (lines 40-113).  A volume file is a       *)
(* record [ok, shape, data]: nib.load / get_fdata raise when ok is FALSE   *)
(* (missing path, undecodable file).                                       *)
(***************************************************************************)
\* Lines 48-52: the eroded mask of one label code.
BaseMask(seg_data, seg_id) == ErodeSlices(ArrEq(seg_data, seg_id))

\* Lines 53-55: the value stored for one label code.
BaseValue(seg_data, qsm_data, seg_id) ==
  RegionStat(NotNaN(BoolIndex(qsm_data, BaseMask(seg_data, seg_id))))

\* Lines 46-55: the loop over regions_dic.keys(), from entry k on.
RECURSIVE BaseLoop(_, _, _, _)
BaseLoop(d, seg_data, qsm_data, k) ==
  IF k > Len(regions_dic)
  THEN d
  ELSE BaseLoop(DictSet(d, regions_dic[k][2],
                        BaseValue(seg_data, qsm_data, regions_dic[k][1])),
                seg_data, qsm_data, k + 1)

\* The masks the loop indexed qsm_data with, by region name.
RECURSIVE BaseMasks(_, _, _)
BaseMasks(m, seg_data, k) ==
  IF k > Len(regions_dic)
  THEN m
  ELSE BaseMasks(DictSet(m, regions_dic[k][2],
                         TrueSet(BaseMask(seg_data, regions_dic[k][1]))),
                 seg_data, k + 1)

\* Lines 40-55 raise: a load fails, mask.shape[2] does not exist, or
\* qsm_data[eroded_mask] is a mismatched boolean index.
BaseRaises(a) ==
  \/ ~a.segmentation.ok
  \/ ~a.qsm_in_T1.ok
  \/ Len(a.segmentation.shape) < 3
  \/ ~IndexOK(a.qsm_in_T1, a.segmentation)

\* Lines 70-74 (and 77-81): mask > 0, not NaN, strictly positive QSM.
SNMask(sn_data) == ArrGt(sn_data, 0)

SNValue(sn_data, qsm_mni_data) ==
  RegionStat(Positive(NotNaN(BoolIndex(qsm_mni_data, SNMask(sn_data)))))

\* Lines 60-81 raise.
SNRaises(a) ==
  \/ ~a.sn_mask_left.ok
  \/ ~a.sn_mask_right.ok
  \/ ~a.qsm_in_mni152.ok
  \/ ~IndexOK(a.qsm_in_mni152, a.sn_mask_left)
  \/ ~IndexOK(a.qsm_in_mni152, a.sn_mask_right)

\* A variant of LesionBranch without the os.path.isfile test.
LesionBranchGivenOnly(a) == a.lesions_mask.given

\* Line 86: args.lesions_mask and os.path.isfile(args.lesions_mask).
LesionBranch(a) == a.lesions_mask.given /\ a.lesions_mask.isfile

\* Line 90: the WMH voxels.
WMHMask(wmh_data) == ArrEq(wmh_data, 1)

\* Line 99: the white-matter mask.
WMMask(seg_data) ==
  logical_or(ArrEq(seg_data, left_white_matter),
             ArrEq(seg_data, right_white_matter))

\* A variant of WMNoLesionsMask that keeps the lesioned voxels instead.
WMNoLesionsMaskLesioned(seg_data, wmh_data) ==
  logical_and(WMMask(seg_data), ArrEq(wmh_data, 1))

\* Line 107: white matter where the lesion volume is 0.
WMNoLesionsMask(seg_data, wmh_data) ==
  logical_and(WMMask(seg_data), ArrEq(wmh_data, 0))

\* Lines 87-90 raise (the later indexings use masks of the shapes already
\* checked).
LesionRaises(a) ==
  \/ ~a.lesions_mask.vol.ok
  \/ ~IndexOK(a.qsm_in_T1, a.lesions_mask.vol)

\* Lines 90-113: the five lesion-dependent keys added to d.
LesionDict(d, a) ==
  LET qsm_data == a.qsm_in_T1
      wmh    == RegionStat(NotNaN(BoolIndex(qsm_data, WMHMask(a.lesions_mask.vol))))
      wm     == RegionStat(NotNaN(BoolIndex(qsm_data, WMMask(a.segmentation))))
      wmnl   == RegionStat(NotNaN(BoolIndex(qsm_data,
                   WMNoLesionsMask(a.segmentation, a.lesions_mask.vol))))
      d1 == DictSet(d, "WMH", wmh)
      d2 == DictSet(d1, "WM", wm)
      d3 == DictSet(d2, "WM_no_lesions", wmnl)
      d4 == DictSet(d3, "Diff-WM", FloatSub(Get(d3, "WM"), Get(d3, "WMH")))
  IN  DictSet(d4, "Diff-WM-no-lesions",
              FloatSub(Get(d4, "WM_no_lesions"), Get(d4, "WMH")))

LesionMasks(m, a) ==
  LET m1 == DictSet(m, "WMH", TrueSet(WMHMask(a.lesions_mask.vol)))
      m2 == DictSet(m1, "WM", TrueSet(WMMask(a.segmentation)))
  IN  DictSet(m2, "WM_no_lesions",
              TrueSet(WMNoLesionsMask(a.segmentation, a.lesions_mask.vol)))

(***************************************************************************)
(* The output rows (lines 118-128).                                        *)
(***************************************************************************)
\* Line 119.
Header(d) == <<"subject", "session">> \o Keys(d)

\* A variant of Row whose values are not in key order.
RowReversed(a, d) ==
  <<a.id, a.ses>> \o [k \in 1..Len(d) |-> d[Len(d) + 1 - k][2]]

\* Line 120.
Row(a, d) == <<a.id, a.ses>> \o Values(d)

\* A variant of HeaderNeeded that writes the header on every append.
HeaderAlways(exists) == TRUE

\* Line 126: the header is written when isfile said the file was absent.
HeaderNeeded(exists) == ~exists

\* Lines 125-128: what one invocation hands to the file, as the lines of
\* writer.writerow in order.  Both lines stay in the file object's buffer
\* (a few hundred bytes) and reach the file together when the with block
\* closes it.
Written(i, a, d, exists) ==
  (IF HeaderNeeded(exists)
   THEN <<[kind |-> "header", by |-> i, cells |-> Header(d)]>>
   ELSE <<>>)
  \o <<[kind |-> "row", by |-> i, cells |-> Row(a, d)]>>

(***************************************************************************)
(* State.                                                                  *)
(***************************************************************************)
VARIABLES
  pc,             \* where each invocation is in the script
  args,           \* the command line of each invocation, files read in
  qsm_by_region,  \* the ordered mapping of each invocation
  sampled,        \* by region name, the mask its voxels were gathered with
  file_exists,    \* line 122, per invocation
  fs_isfile,      \* the output path is an existing file
  fs_lines,       \* the lines of the output file
  order           \* the invocations in the order they started

vars == <<pc, args, qsm_by_region, sampled, file_exists, fs_isfile, fs_lines, order>>

BadFile == [ok |-> FALSE, shape |-> <<>>, data |-> <<>>]

NoLesion == [given |-> FALSE, isfile |-> FALSE, vol |-> BadFile]

\* The command line of an invocation that has not started.
NoArgs ==
  [id |-> 0, ses |-> 0, segmentation |-> BadFile, qsm_in_T1 |-> BadFile,
   qsm_in_mni152 |-> BadFile, sn_mask_left |-> BadFile,
   sn_mask_right |-> BadFile, lesions_mask |-> NoLesion]

Init ==
  /\ pc = [i \in Inv |-> "idle"]
  /\ args = [i \in Inv |-> NoArgs]
  /\ qsm_by_region = [i \in Inv |-> <<>>]
  /\ sampled = [i \in Inv |-> <<>>]
  /\ file_exists = [i \in Inv |-> FALSE]
  /\ fs_isfile = FALSE
  /\ fs_lines = <<>>
  /\ order = <<>>

Active(i) == pc[i] \notin {"idle", "done", "aborted"}

\* The process starts with one of the command lines of S (lines 8-20).
Start(i, S) ==
  /\ pc[i] = "idle"
  /\ \E a \in S : args' = [args EXCEPT ![i] = [a EXCEPT !.id = i]]
  /\ pc' = [pc EXCEPT ![i] = "base"]
  /\ order' = Append(order, i)
  /\ UNCHANGED <<qsm_by_region, sampled, file_exists, fs_isfile, fs_lines>>

\* Lines 40-55: load the segmentation and the native-space QSM, one value
\* per base region.  An exception ends the process.
ComputeBase(i) ==
  /\ pc[i] = "base"
  /\ IF BaseRaises(args[i])
     THEN /\ pc' = [pc EXCEPT ![i] = "aborted"]
          /\ UNCHANGED <<qsm_by_region, sampled>>
     ELSE /\ qsm_by_region' = [qsm_by_region EXCEPT ![i] =
                 BaseLoop(<<>>, args[i].segmentation, args[i].qsm_in_T1, 1)]
          /\ sampled' = [sampled EXCEPT ![i] =
                 BaseMasks(<<>>, args[i].segmentation, 1)]
          /\ pc' = [pc EXCEPT ![i] = "sn"]
  /\ UNCHANGED <<args, file_exists, fs_isfile, fs_lines, order>>

\* Lines 60-81: SN_L and SN_R from the template-space volumes.
ComputeSN(i) ==
  /\ pc[i] = "sn"
  /\ IF SNRaises(args[i])
     THEN /\ pc' = [pc EXCEPT ![i] = "aborted"]
          /\ UNCHANGED <<qsm_by_region, sampled>>
     ELSE /\ qsm_by_region' = [qsm_by_region EXCEPT ![i] =
                 DictSet(DictSet(@, "SN_L",
                                 SNValue(args[i].sn_mask_left, args[i].qsm_in_mni152)),
                         "SN_R",
                         SNValue(args[i].sn_mask_right, args[i].qsm_in_mni152))]
          /\ sampled' = [sampled EXCEPT ![i] =
                 DictSet(DictSet(@, "SN_L", TrueSet(SNMask(args[i].sn_mask_left))),
                         "SN_R", TrueSet(SNMask(args[i].sn_mask_right)))]
          /\ pc' = [pc EXCEPT ![i] = "lesion"]
  /\ UNCHANGED <<args, file_exists, fs_isfile, fs_lines, order>>

\* Lines 86-113: the lesion-dependent keys, when a lesion mask is usable.
ComputeLesion(i) ==
  /\ pc[i] = "lesion"
  /\ IF ~LesionBranch(args[i])
     THEN /\ pc' = [pc EXCEPT ![i] = "check"]
          /\ UNCHANGED <<qsm_by_region, sampled>>
     ELSE IF LesionRaises(args[i])
     THEN /\ pc' = [pc EXCEPT ![i] = "aborted"]
          /\ UNCHANGED <<qsm_by_region, sampled>>
     ELSE /\ qsm_by_region' = [qsm_by_region EXCEPT ![i] = LesionDict(@, args[i])]
          /\ sampled' = [sampled EXCEPT ![i] = LesionMasks(@, args[i])]
          /\ pc' = [pc EXCEPT ![i] = "check"]
  /\ UNCHANGED <<args, file_exists, fs_isfile, fs_lines, order>>

\* Lines 118-122: file_exists = os.path.isfile(outfile).
CheckExists(i) ==
  /\ pc[i] = "check"
  /\ file_exists' = [file_exists EXCEPT ![i] = fs_isfile]
  /\ pc' = [pc EXCEPT ![i] = "open"]
  /\ UNCHANGED <<args, qsm_by_region, sampled, fs_isfile, fs_lines, order>>

\* Line 124: open(outfile, "a") creates the file when it is absent.
OpenFile(i) ==
  /\ pc[i] = "open"
  /\ fs_isfile' = TRUE
  /\ pc' = [pc EXCEPT ![i] = "write"]
  /\ UNCHANGED <<args, qsm_by_region, sampled, file_exists, fs_lines, order>>

\* A variant of WriteRows that opens the file for writing, not appending.
WriteRowsTruncating(i) ==
  /\ pc[i] = "write"
  /\ fs_lines' = Written(i, args[i], qsm_by_region[i], file_exists[i])
  /\ pc' = [pc EXCEPT ![i] = "done"]
  /\ UNCHANGED <<args, qsm_by_region, sampled, file_exists, fs_isfile, order>>

\* Lines 125-128: the header (if wanted) and the row, appended when the
\* with block closes the file.
WriteRows(i) ==
  /\ pc[i] = "write"
  /\ fs_lines' = fs_lines \o Written(i, args[i], qsm_by_region[i], file_exists[i])
  /\ pc' = [pc EXCEPT ![i] = "done"]
  /\ UNCHANGED <<args, qsm_by_region, sampled, file_exists, fs_isfile, order>>

Run(i) ==
  \/ ComputeBase(i)
  \/ ComputeSN(i)
  \/ ComputeLesion(i)
  \/ CheckExists(i)
  \/ OpenFile(i)
  \/ WriteRows(i)

(***************************************************************************)
(* Command lines explored.                                                 *)
(***************************************************************************)
\* A readable volume file of the given shape and voxel data.
Vol(shape, data) == [ok |-> TRUE, shape |-> shape, data |-> data]

NativeShape == <<3, 3, 1>>

TemplateShape == <<2, 1, 1>>

\* One axial slice: label 10 on the cross around the centre, white matter
\* (2, 41, 2) on three corners, background on the fourth.
SegCross ==
  Vol(NativeShape,
      [c \in Coords(NativeShape) |-> IF c[1] = 1 \/ c[2] = 1 THEN 10
                 ELSE IF c = <<2, 0, 0>> THEN 41
                 ELSE IF c = <<2, 2, 0>> THEN 0 ELSE 2])

QsmNative ==
  Vol(NativeShape,
      [c \in Coords(NativeShape) |-> IF c = <<1, 1, 0>> THEN 4
                 ELSE IF c = <<0, 0, 0>> THEN NaN ELSE 2])

\* The same grid with a fourth axis (a multi-volume NIfTI).
QsmNative4D ==
  Vol(<<3, 3, 1, 2>>, [c \in Coords(<<3, 3, 1, 2>>) |-> IF c[4] = 0 THEN QsmNative.data[Prefix(c, 3)] ELSE 6])

QsmTemplate == Vol(TemplateShape, [c \in Coords(TemplateShape) |-> IF c[1] = 0 THEN 6 ELSE -2])

SNLeft == Vol(TemplateShape, [c \in Coords(TemplateShape) |-> IF c[1] = 0 THEN 2 ELSE 0])

SNRight == Vol(TemplateShape, [c \in Coords(TemplateShape) |-> IF c[1] = 1 THEN 2 ELSE 0])

LesionVol == Vol(NativeShape, [c \in Coords(NativeShape) |-> IF c = <<2, 0, 0>> THEN 1 ELSE 0])

\* Volumes of another grid.
OtherNative == Vol(<<2, 2, 1>>, [c \in Coords(<<2, 2, 1>>) |-> 2])

OtherTemplate == Vol(<<1, 1, 1>>, [c \in Coords(<<1, 1, 1>>) |-> 2])

Seg2D == Vol(<<3, 3>>, [c \in Coords(<<3, 3>>) |-> 10])

LesionGood == [given |-> TRUE, isfile |-> TRUE, vol |-> LesionVol]

\* A lesion mask without any lesion.
LesionZero ==
  [given |-> TRUE, isfile |-> TRUE, vol |-> Vol(NativeShape, [c \in Coords(NativeShape) |-> 0])]

GoodArgs ==
  [id |-> 0, ses |-> 1, segmentation |-> SegCross, qsm_in_T1 |-> QsmNative,
   qsm_in_mni152 |-> QsmTemplate, sn_mask_left |-> SNLeft,
   sn_mask_right |-> SNRight, lesions_mask |-> NoLesion]

\* Well-formed command lines: without a lesion mask, with one, with one
\* that marks no voxel, with a lesion path that is no existing file.
UsableArgs ==
  {GoodArgs,
   [GoodArgs EXCEPT !.lesions_mask = LesionGood],
   [GoodArgs EXCEPT !.lesions_mask = LesionZero],
   [GoodArgs EXCEPT !.lesions_mask = [given |-> TRUE, isfile |-> FALSE, vol |-> BadFile]]}

\* Command lines with an unreadable volume.
UnreadableArgs ==
  {[GoodArgs EXCEPT !.segmentation = BadFile],
   [GoodArgs EXCEPT !.qsm_in_T1 = BadFile],
   [GoodArgs EXCEPT !.qsm_in_mni152 = BadFile],
   [GoodArgs EXCEPT !.sn_mask_left = BadFile],
   [GoodArgs EXCEPT !.sn_mask_right = BadFile],
   [GoodArgs EXCEPT !.lesions_mask = [given |-> TRUE, isfile |-> TRUE, vol |-> BadFile]]}

\* Command lines whose volumes are not on one grid.
MismatchedArgs ==
  {[GoodArgs EXCEPT !.qsm_in_T1 = OtherNative],
   [GoodArgs EXCEPT !.segmentation = OtherNative],
   [GoodArgs EXCEPT !.segmentation = Seg2D],
   [GoodArgs EXCEPT !.sn_mask_left = OtherTemplate],
   [GoodArgs EXCEPT !.sn_mask_right = OtherTemplate],
   [GoodArgs EXCEPT !.qsm_in_mni152 = OtherTemplate],
   [GoodArgs EXCEPT !.lesions_mask = [given |-> TRUE, isfile |-> TRUE, vol |-> OtherNative]],
   [GoodArgs EXCEPT !.qsm_in_T1 = QsmNative4D],
   [GoodArgs EXCEPT !.qsm_in_T1 = QsmNative4D, !.lesions_mask = LesionGood]}

FileArgs == UsableArgs \cup UnreadableArgs \cup MismatchedArgs

\* Erosion: label volumes of 3 x 3 x GridZ voxels holding two catalog codes,
\* every pattern in the first slice, the other slices uniform.
ErosionShape == <<3, 3, GridZ>>

ErosionArgs ==
  {[GoodArgs EXCEPT
      !.segmentation =
         Vol(ErosionShape,
             [c \in Coords(ErosionShape) |-> IF (IF c[3] = 0 THEN <<c[1], c[2]>> \in P ELSE rest)
                        THEN regions_dic[k][1]
                        ELSE regions_dic[Len(regions_dic) + 1 - k][1]]),
      !.qsm_in_T1 =
         Vol(ErosionShape,
             [c \in Coords(ErosionShape) |-> IF c = <<1, 1, 1>> THEN NaN ELSE 2 * (c[1] + c[2] + c[3])])] :
   P \in SUBSET Coords(<<3, 3>>), k \in 1..(Len(regions_dic) \div 2), rest \in BOOLEAN}

\* White matter and lesions: every labelling of three voxels with
\* background and the two white-matter codes, every lesion volume over
\* 0, 1 and another value, a few QSM volumes.
LineShape == <<3, 1, 1>>

LineQsm ==
  {<<2, 4, 8>>, <<NaN, 2, 4>>, <<NaN, NaN, NaN>>, <<4, NaN, 2>>, <<8, 8, 2>>, <<2, 6, NaN>>}

LesionArgs ==
  {[GoodArgs EXCEPT
      !.segmentation = [ok |-> TRUE, shape |-> LineShape, data |-> seg],
      !.qsm_in_T1 = Vol(LineShape, [c \in Coords(LineShape) |-> q[c[1] + 1]]),
      !.lesions_mask = [given |-> TRUE, isfile |-> TRUE,
                        vol |-> [ok |-> TRUE, shape |-> LineShape, data |-> les]]] :
   seg \in [Coords(LineShape) -> {0, left_white_matter, right_white_matter}],
   les \in [Coords(LineShape) -> {0, 1, 2}],
   q \in LineQsm}

\* Substantia nigra: every left mask over 0, a positive value and NaN,
\* every template-space QSM over NaN, negative, zero and positive values.
SNArgs ==
  {[GoodArgs EXCEPT
      !.sn_mask_left = [ok |-> TRUE, shape |-> LineShape, data |-> sn],
      !.sn_mask_right = Vol(LineShape, [c \in Coords(LineShape) |-> IF c[1] = 2 THEN 2 ELSE 0]),
      !.qsm_in_mni152 = [ok |-> TRUE, shape |-> LineShape, data |-> q]] :
   sn \in [Coords(LineShape) -> {0, 2, NaN}],
   q \in [Coords(LineShape) -> {NaN, -2, 0, 4, 8}]}

\* A 5 x 5 x 1 label volume that is label 10 everywhere.
Seg5x5 == Vol(<<5, 5, 1>>, [c \in Coords(<<5, 5, 1>>) |-> 10])

SliceArgs ==
  {[GoodArgs EXCEPT !.segmentation = Seg5x5,
                    !.qsm_in_T1 = Vol(<<5, 5, 1>>, [c \in Coords(<<5, 5, 1>>) |-> 2 * (c[1] + c[2])])]}

VoxArgs == FileArgs \cup ErosionArgs \cup SliceArgs \cup LesionArgs \cup SNArgs

(***************************************************************************)
(* Specifications.                                                         *)
(***************************************************************************)
\* Invocations run as concurrent processes.
Next == \E i \in Inv : Start(i, FileArgs) \/ Run(i)

Spec == Init /\ [][Next]_vars

\* Invocations run one after the other: none starts while another runs.
StartAlone(i) == (\A j \in Inv : ~Active(j)) /\ Start(i, FileArgs)

NextSeq == \E i \in Inv : StartAlone(i) \/ Run(i)

SpecSeq == Init /\ [][NextSeq]_vars

\* One invocation, over the voxel-level command lines.
NextVox == Start(1, VoxArgs) \/ Run(1)

SpecVox == Init /\ [][NextVox]_vars

(***************************************************************************)
(* Properties of the output file.                                          *)
(***************************************************************************)
\* No invocation is running and at least one has written its row.
Quiescent == (\A j \in Inv : ~Active(j)) /\ (\E j \in Inv : pc[j] = "done")

\* The invocations that ran to the end, in the order they started.
Finished == SelectSeq(order, LAMBDA j : pc[j] = "done")

HeaderLines == {k \in 1..Len(fs_lines) : fs_lines[k].kind = "header"}

LinesBy(i) == {k \in 1..Len(fs_lines) : fs_lines[k].by = i}

\* C1: after N >= 1 successful invocations run one after the other on a path
\* that did not exist, the file is one header line, written by the first of
\* them, followed by their N data lines in invocation order.
C1_OneHeaderThenRows ==
  Quiescent =>
    /\ Len(fs_lines) = Len(Finished) + 1
    /\ fs_lines[1].kind = "header"
    /\ fs_lines[1].by = Finished[1]
    /\ fs_lines[1].cells = Header(qsm_by_region[Finished[1]])
    /\ \A k \in 1..Len(Finished) :
         /\ fs_lines[k + 1].kind = "row"
         /\ fs_lines[k + 1].by = Finished[k]
         /\ fs_lines[k + 1].cells = Row(args[Finished[k]], qsm_by_region[Finished[k]])

\* Every invocation ran to the end, one after the other.
C1_Witness ==
  /\ \A j \in Inv : pc[j] = "done"
  /\ Len(fs_lines) = NumInv + 1
  /\ HeaderLines = {1}

\* C2: whatever the interleaving of invocations that start with the file
\* absent, the file they leave has exactly one header line, the header is the
\* first line, and the lines of one invocation are not split by another's.
C2_Serialized ==
  Quiescent =>
    /\ Cardinality(HeaderLines) = 1
    /\ fs_lines[1].kind = "header"
    /\ \A i \in Inv : \A k1 \in LinesBy(i), k2 \in LinesBy(i) :
         \A k \in k1..k2 : k \in LinesBy(i)

\* C10: the lines already in the file are never changed, and an invocation
\* that found the file existing appends its data row alone and ends normally,
\* whatever its keys.
C10_HeaderKept ==
  [][/\ Len(fs_lines') >= Len(fs_lines)
     /\ \A k \in 1..Len(fs_lines) :
          /\ fs_lines'[k].kind = fs_lines[k].kind
          /\ fs_lines'[k].by = fs_lines[k].by
          /\ fs_lines'[k].cells = fs_lines[k].cells
     /\ \A i \in Inv :
          (pc[i] = "write" /\ pc'[i] # "write" /\ file_exists[i]) =>
            /\ pc'[i] = "done"
            /\ Len(fs_lines') = Len(fs_lines) + 1
            /\ fs_lines'[Len(fs_lines')].kind = "row"
            /\ fs_lines'[Len(fs_lines')].cells = Row(args[i], qsm_by_region[i])]_vars

\* A finished file whose header has the 23 columns of an invocation with a
\* lesion mask and whose next line has the 18 columns of one without.
C10_Witness ==
  /\ Quiescent
  /\ Len(fs_lines) >= 3
  /\ fs_lines[1].kind = "header" /\ Len(fs_lines[1].cells) = 23
  /\ fs_lines[2].kind = "row" /\ Len(fs_lines[2].cells) = 23
  /\ fs_lines[3].kind = "row" /\ Len(fs_lines[3].cells) = 18
  /\ file_exists[fs_lines[3].by]

(***************************************************************************)
(* Properties of one invocation's result.                                  *)
(***************************************************************************)
\* Every region of the invocation has been computed.
Computed(i) == pc[i] \in {"check", "open", "write", "done"}

KeySet(d) == {d[k][1] : k \in 1..Len(d)}

LesionKeys == {"WMH", "WM", "WM_no_lesions", "Diff-WM", "Diff-WM-no-lesions"}

\* A lesion mask path was supplied and is an existing file.
LesionUsable(a) == a.lesions_mask.given /\ a.lesions_mask.isfile

\* A required volume, or a supplied and existing lesion mask, fails to load.
Unreadable(a) ==
  \/ ~a.segmentation.ok \/ ~a.qsm_in_T1.ok \/ ~a.qsm_in_mni152.ok
  \/ ~a.sn_mask_left.ok \/ ~a.sn_mask_right.ok
  \/ (LesionUsable(a) /\ ~a.lesions_mask.vol.ok)

\* All loaded, and a mask's shape is not the shape of the volume it indexes.
Mismatched(a) ==
  /\ ~Unreadable(a)
  /\ \/ a.segmentation.shape # a.qsm_in_T1.shape
     \/ a.sn_mask_left.shape # a.qsm_in_mni152.shape
     \/ a.sn_mask_right.shape # a.qsm_in_mni152.shape
     \/ (LesionUsable(a) /\ a.lesions_mask.vol.shape # a.qsm_in_T1.shape)

\* C3: an invocation with an unreadable volume or with a mask whose shape is
\* not that of the volume it indexes aborts before its regions are complete
\* and leaves no line in the output file.
C3_AbortsBeforeOutput ==
  \A i \in Inv :
    (pc[i] # "idle" /\ (Unreadable(args[i]) \/ Mismatched(args[i]))) =>
      /\ pc[i] \in {"base", "sn", "lesion", "aborted"}
      /\ LinesBy(i) = {}

\* The required volumes all load and lie on the grids of their masks.
RequiredFine(a) ==
  /\ a.segmentation.ok /\ a.qsm_in_T1.ok /\ a.qsm_in_mni152.ok
  /\ a.sn_mask_left.ok /\ a.sn_mask_right.ok
  /\ Len(a.segmentation.shape) = 3
  /\ a.segmentation.shape = a.qsm_in_T1.shape
  /\ a.sn_mask_left.shape = a.qsm_in_mni152.shape
  /\ a.sn_mask_right.shape = a.qsm_in_mni152.shape

\* C4: the five lesion-dependent keys are all present or all absent; without
\* a usable lesion mask (none supplied, or the path is no existing file) they
\* are absent from the result and from the row, the result has the 16 other
\* keys and the invocation does not abort; with a supplied, existing lesion
\* mask all five are present.
C4_LesionKeysAllOrNothing ==
  \A i \in Inv :
    LET d == qsm_by_region[i]
        a == args[i]
    IN  /\ KeySet(d) \cap LesionKeys \in {{}, LesionKeys}
        /\ Computed(i) =>
             IF LesionUsable(a)
             THEN LesionKeys \subseteq KeySet(d) /\ Len(d) = 21
             ELSE KeySet(d) \cap LesionKeys = {} /\ Len(d) = 16
        /\ (pc[i] # "idle" /\ ~LesionUsable(a) /\ RequiredFine(a)) => pc[i] # "aborted"
        /\ \A k \in LinesBy(i) :
             Len(fs_lines[k].cells) = IF LesionUsable(a) THEN 23 ELSE 18

\* An invocation given a lesion path that is no file ran to the end and
\* wrote a row of 18 columns.
C4_Witness ==
  \E i \in Inv :
    /\ pc[i] = "done"
    /\ args[i].lesions_mask.given /\ ~args[i].lesions_mask.isfile
    /\ Len(qsm_by_region[i]) = 16
    /\ \E k \in LinesBy(i) : fs_lines[k].kind = "row" /\ Len(fs_lines[k].cells) = 18

BaseNames ==
  <<"Left-Thalamus-Proper", "Left-Caudate", "Left-Putamen", "Left-Pallidum",
    "Left-Hippocampus", "Left-Amygdala", "Left-Accumbens-area",
    "Right-Thalamus-Proper", "Right-Caudate", "Right-Putamen",
    "Right-Pallidum", "Right-Hippocampus", "Right-Amygdala",
    "Right-Accumbens-area">>

BaseCodes == <<10, 11, 12, 13, 17, 18, 26, 49, 50, 51, 52, 53, 54, 58>>

\* The keys an invocation is to produce, in order.
ExpectedKeys(a) ==
  BaseNames \o <<"SN_L", "SN_R">> \o
  (IF LesionUsable(a)
   THEN <<"WMH", "WM", "WM_no_lesions", "Diff-WM", "Diff-WM-no-lesions">>
   ELSE <<>>)

\* C9: the keys of a complete result are the 14 base names in ascending
\* label-code order, SN_L, SN_R and, when the lesion branch ran, the five
\* lesion keys; a header line is subject, session and these names, a data
\* row has as many cells, and its i-th cell is the value of the i-th name.
C9_ColumnOrder ==
  \A i \in Inv :
    Computed(i) =>
      LET d == qsm_by_region[i]
          a == args[i]
          keys == ExpectedKeys(a)
      IN  /\ Keys(d) = keys
          /\ \A k \in 1..Len(regions_dic) :
               /\ regions_dic[k][1] = BaseCodes[k]
               /\ keys[k] = regions_dic[k][2]
               /\ k > 1 => regions_dic[k - 1][1] < regions_dic[k][1]
          /\ \A k \in LinesBy(i) :
               LET cells == fs_lines[k].cells
               IN  /\ Len(cells) = Len(keys) + 2
                   /\ IF fs_lines[k].kind = "header"
                      THEN cells = <<"subject", "session">> \o keys
                      ELSE /\ cells[1] = a.id /\ cells[2] = a.ses
                           /\ \A n \in 1..Len(keys) : cells[n + 2] = Get(d, keys[n])
                           /\ (a.segmentation = SegCross /\ a.qsm_in_T1 = QsmNative)
                                => cells[3] = 4
                           /\ (a.sn_mask_left = SNLeft /\ a.qsm_in_mni152 = QsmTemplate)
                                => cells[17] = 6

\* An invocation with a lesion mask wrote a header and a row of 23 columns.
C9_Witness ==
  \E i \in Inv :
    /\ pc[i] = "done" /\ LesionUsable(args[i])
    /\ \E k \in LinesBy(i) : fs_lines[k].kind = "header" /\ Len(fs_lines[k].cells) = 23
    /\ \E k \in LinesBy(i) : fs_lines[k].kind = "row" /\ Len(fs_lines[k].cells) = 23

(***************************************************************************)
(* Properties of the voxel selection and of the statistic.                 *)
(***************************************************************************)
\* The voxels of a scalar volume that a region's mask selects and that are
\* not NaN (and, for the substantia nigra, strictly positive).
FiniteSelection(vol, mask, positive) ==
  {c \in DOMAIN vol.data :
     /\ <<c[1], c[2], c[3]>> \in mask
     /\ vol.data[c] # NaN
     /\ positive => vol.data[c] > 0}

\* The value a region is to get from such a selection.
ValueOver(vol, sel) ==
  IF sel = {} THEN NaN ELSE median([c \in sel |-> vol.data[c]])

RegionAsStated(d, m, name, vol, positive) ==
  LET sel == FiniteSelection(vol, Get(m, name), positive)
  IN  /\ Get(d, name) = ValueOver(vol, sel)
      /\ (Get(d, name) = NaN) <=> (sel = {})

DiffAsStated(d, diff, left, right) ==
  /\ (Get(d, left) = NaN \/ Get(d, right) = NaN) => Get(d, diff) = NaN
  /\ (Get(d, left) # NaN /\ Get(d, right) # NaN) =>
       Get(d, diff) = Get(d, left) - Get(d, right)

\* C6: a region whose mask selects no non-NaN (for SN_L and SN_R: no
\* positive) voxel has the value NaN and every other region its median; the
\* two differences are NaN when an operand is; an invocation aborts only for
\* an unreadable or mismatched input, never for an empty region, and its row
\* carries the values, NaN included.
C6_EmptyRegionIsNaN ==
  \A i \in Inv :
    LET d == qsm_by_region[i]
        m == sampled[i]
        a == args[i]
    IN  /\ \A k \in 1..Len(BaseNames) :
             HasKey(d, BaseNames[k]) =>
               RegionAsStated(d, m, BaseNames[k], a.qsm_in_T1, FALSE)
        /\ \A name \in {"SN_L", "SN_R"} :
             HasKey(d, name) => RegionAsStated(d, m, name, a.qsm_in_mni152, TRUE)
        /\ \A name \in {"WMH", "WM", "WM_no_lesions"} :
             HasKey(d, name) => RegionAsStated(d, m, name, a.qsm_in_T1, FALSE)
        /\ HasKey(d, "Diff-WM") => DiffAsStated(d, "Diff-WM", "WM", "WMH")
        /\ HasKey(d, "Diff-WM-no-lesions") =>
             DiffAsStated(d, "Diff-WM-no-lesions", "WM_no_lesions", "WMH")
        /\ pc[i] = "aborted" => (Unreadable(a) \/ Mismatched(a))
        /\ pc[i] = "done" =>
             \E k \in LinesBy(i) :
               /\ fs_lines[k].kind = "row"
               /\ fs_lines[k].cells = <<a.id, a.ses>> \o Values(d)

\* A finished invocation with an empty base region next to a non-empty one,
\* an SN region without positive voxels, and a difference that is NaN because
\* WMH is, while WM is not.
C6_Witness ==
  \E i \in Inv :
    LET d == qsm_by_region[i]
    IN  /\ pc[i] = "done" /\ Len(d) = 21
        /\ \E k1 \in 1..Len(BaseNames), k2 \in 1..Len(BaseNames) :
             Get(d, BaseNames[k1]) = NaN /\ Get(d, BaseNames[k2]) # NaN
        /\ Get(d, "SN_R") = NaN /\ Get(d, "SN_L") # NaN
        /\ Get(d, "WMH") = NaN /\ Get(d, "WM") # NaN /\ Get(d, "Diff-WM") = NaN
        /\ \E k \in LinesBy(i) :
             /\ fs_lines[k].kind = "row"
             /\ fs_lines[k].cells[3] # NaN /\ fs_lines[k].cells[4] = NaN

\* C7: the voxels gathered for a base region are those where the label
\* volume equals the region's code at the voxel and at its four in-plane
\* neighbours, a neighbour outside the volume counting as not selected; the
\* slices above and below play no part.  A 5 x 5 x 1 slice that is all one
\* label keeps its 3 x 3 interior.
C7_ErosionInPlane ==
  \A i \in Inv :
    LET seg == args[i].segmentation
        m == sampled[i]
    IN  /\ \A k \in 1..Len(BaseNames) :
             HasKey(m, BaseNames[k]) =>
               LET Sel(x, y, z) ==
                     /\ <<x, y, z>> \in DOMAIN seg.data
                     /\ seg.data[<<x, y, z>>] = BaseCodes[k]
               IN  Get(m, BaseNames[k]) =
                     {c \in Coords(seg.shape) :
                        /\ Sel(c[1], c[2], c[3])
                        /\ Sel(c[1] - 1, c[2], c[3]) /\ Sel(c[1] + 1, c[2], c[3])
                        /\ Sel(c[1], c[2] - 1, c[3]) /\ Sel(c[1], c[2] + 1, c[3])}
        /\ (seg = Seg5x5 /\ HasKey(m, "Left-Thalamus-Proper")) =>
             Get(m, "Left-Thalamus-Proper") = {<<x, y, 0>> : x \in 1..3, y \in 1..3}

\* The 5 x 5 x 1 slice eroded to its interior, and a centre voxel of the
\* explored grid that survives although the voxel above it has another label.
C7_Witness ==
  \E i \in Inv :
    LET seg == args[i].segmentation
        m == sampled[i]
    IN  /\ HasKey(m, "Left-Thalamus-Proper")
        /\ \/ seg = Seg5x5 /\ Cardinality(Get(m, "Left-Thalamus-Proper")) = 9
           \/ /\ seg.shape = ErosionShape
              /\ <<1, 1, 0>> \in Get(m, "Left-Thalamus-Proper")
              /\ seg.data[<<1, 1, 1>>] # 10
              /\ seg.data[<<0, 0, 0>>] # 10

\* C8: the voxels gathered for WM_no_lesions are the white-matter voxels
\* (label 2 or 41) that are not WMH voxels (lesion = 1), whatever values the
\* lesion volume holds.
C8_WMNoLesionsIsDifference ==
  \A i \in Inv :
    (Computed(i) /\ LesionUsable(args[i])) =>
      LET seg == args[i].segmentation
          les == args[i].lesions_mask.vol
          WM == {c \in DOMAIN seg.data : seg.data[c] \in {2, 41}}
          WMH == {c \in DOMAIN les.data : les.data[c] = 1}
      IN  /\ Get(sampled[i], "WM") = WM
          /\ Get(sampled[i], "WMH") = WMH
          /\ Get(sampled[i], "WM_no_lesions") = WM \ WMH

AllZero(vol) == \A c \in DOMAIN vol.data : vol.data[c] = 0

\* C5 as stated: with a lesion mask that is zero everywhere the key WMH is
\* absent from the result, and WM and WM_no_lesions have the same value.
C5_WMHAbsent ==
  \A i \in Inv :
    (Computed(i) /\ LesionUsable(args[i]) /\ AllZero(args[i].lesions_mask.vol)) =>
      /\ ~HasKey(qsm_by_region[i], "WMH")
      /\ Get(qsm_by_region[i], "WM") = Get(qsm_by_region[i], "WM_no_lesions")

\* C5 as amended: with a lesion mask that is zero everywhere the key WMH is
\* present with the value NaN, and WM and WM_no_lesions have the same value.
C5_WMHIsNaN ==
  \A i \in Inv :
    (Computed(i) /\ LesionUsable(args[i]) /\ AllZero(args[i].lesions_mask.vol)) =>
      /\ HasKey(qsm_by_region[i], "WMH")
      /\ Get(qsm_by_region[i], "WMH") = NaN
      /\ Get(qsm_by_region[i], "WM") = Get(qsm_by_region[i], "WM_no_lesions")

\* A finished invocation whose lesion mask is zero everywhere and whose
\* white matter has a value.
C5_Witness ==
  \E i \in Inv :
    /\ pc[i] = "done" /\ LesionUsable(args[i]) /\ AllZero(args[i].lesions_mask.vol)
    /\ Get(qsm_by_region[i], "WM") # NaN
    /\ Get(qsm_by_region[i], "WMH") = NaN

====
